---- MODULE Spec2Model ----
(***************************************************************************)
(* Model of the Doctor-Support vector pipeline:                            *)
(*   vector_store.py   ingestion   (store_embeddings and its helpers)      *)
(*   retriever.py      retrieval   (retrieve_similar_chunks, get_embedding)*)
(*   manage_indexes.py admin       (describe_collection, delete_collection)*)
(*                                                                         *)
(* Text is a sequence of one-character strings.  A Python value read from  *)
(* a JSON record is None or Str(s) for a text s; an absent key is a key    *)
(* outside the record's DOMAIN.  The embedding provider and the vector     *)
(* store are the two external services; they are modelled at the calls the *)
(* source makes to them.                                                   *)
(***************************************************************************)
EXTENDS Integers, Sequences, FiniteSets, TLC

\* ------------------------------------------------------------------ bounds

\* Largest number of records in the input file of the small-input runs.
MaxDocs == 2
\* Largest n_results a retrieval asks for.
MaxTopK == 2
\* The batched runs ingest up to MaxBatches full batches plus a remainder.
MaxBatches == 2

\* ------------------------------------------------------- program constants

\* batch_size = 100
BatchSize == 100
\* text_blob[:6000]
TextCap == 6000
\* cosine distances and similarities are kept in tenths: 1.0 is Scale.
Scale == 10

\* CHROMA_COLLECTION_NAME and one other collection of the same store.
CHROMA_COLLECTION_NAME == "medical-vectors"
OtherCollection == "other-vectors"
CollectionNames == {CHROMA_COLLECTION_NAME, OtherCollection}

\* ------------------------------------------------------------ Python values

None == [none |-> TRUE]
Str(s) == [str |-> s]
IsStr(v) == "str" \in DOMAIN v
\* Python truthiness of None and of a str.
Truthy(v) == IsStr(v) /\ v.str # <<>>
\* doc.get(k) and doc.get(k, default)
Get(doc, k) == IF k \in DOMAIN doc THEN doc[k] ELSE None
GetDefault(doc, k, d) == IF k \in DOMAIN doc THEN doc[k] ELSE d
\* a or b
Or(a, b) == IF Truthy(a) THEN a ELSE b

Min(a, b) == IF a < b THEN a ELSE b

\* --------------------------------------------------------------------- text

NL == "\n"
Whitespace == {" ", NL}

T1(c) == <<c>>
Space == T1(" ")

LowerLetters ==
    <<"a","b","c","d","e","f","g","h","i","j","k","l","m",
      "n","o","p","q","r","s","t","u","v","w","x","y","z">>
UpperLetters ==
    <<"A","B","C","D","E","F","G","H","I","J","K","L","M",
      "N","O","P","Q","R","S","T","U","V","W","X","Y","Z">>
IsLetter(c) == \E i \in 1..26 : c = LowerLetters[i] \/ c = UpperLetters[i]
Upper(c) ==
    IF \E i \in 1..26 : c = LowerLetters[i]
    THEN UpperLetters[CHOOSE i \in 1..26 : c = LowerLetters[i]]
    ELSE c
Lower(c) ==
    IF \E i \in 1..26 : c = UpperLetters[i]
    THEN LowerLetters[CHOOSE i \in 1..26 : c = UpperLetters[i]]
    ELSE c

\* s.replace(old, new) for one-character old and new
Replace(s, old, new) == [i \in 1..Len(s) |-> IF s[i] = old THEN new ELSE s[i]]

\* s.title(): a letter that starts a word is upper-cased, the others lowered.
Title(s) ==
    [i \in 1..Len(s) |->
        IF i = 1 \/ ~IsLetter(s[i - 1]) THEN Upper(s[i]) ELSE Lower(s[i])]

\* s.strip()
RECURSIVE LStrip(_)
LStrip(s) == IF s # <<>> /\ Head(s) \in Whitespace THEN LStrip(Tail(s)) ELSE s
RECURSIVE RStrip(_)
RStrip(s) ==
    IF s # <<>> /\ s[Len(s)] \in Whitespace
    THEN RStrip(SubSeq(s, 1, Len(s) - 1))
    ELSE s
Strip(s) == RStrip(LStrip(s))

\* sep.join(parts)
RECURSIVE Join(_, _)
Join(sep, parts) ==
    IF parts = <<>> THEN <<>>
    ELSE IF Len(parts) = 1 THEN parts[1]
    ELSE parts[1] \o sep \o Join(sep, Tail(parts))

\* str(n) for n >= 0
DigitChars == <<"0","1","2","3","4","5","6","7","8","9">>
RECURSIVE DecStr(_)
DecStr(n) ==
    IF n < 10 THEN T1(DigitChars[n + 1])
    ELSE DecStr(n \div 10) \o T1(DigitChars[(n % 10) + 1])

\* f"vec_{i}"
VecId(i) == <<"v","e","c","_">> \o DecStr(i)

\* ----------------------------------------------------- build_text_for_embedding

fields_in_order ==
    <<"product_name", "brand_name", "therapeutic_class", "strength",
      "dosage_form", "pack_size", "composition", "indication_summary",
      "extracted_text">>

\* the characters of each field name
KeyChars == [
    product_name |-> <<"p","r","o","d","u","c","t","_","n","a","m","e">>,
    brand_name |-> <<"b","r","a","n","d","_","n","a","m","e">>,
    therapeutic_class |-> <<"t","h","e","r","a","p","e","u","t","i","c","_","c","l","a","s","s">>,
    strength |-> <<"s","t","r","e","n","g","t","h">>,
    dosage_form |-> <<"d","o","s","a","g","e","_","f","o","r","m">>,
    pack_size |-> <<"p","a","c","k","_","s","i","z","e">>,
    composition |-> <<"c","o","m","p","o","s","i","t","i","o","n">>,
    indication_summary |-> <<"i","n","d","i","c","a","t","i","o","n","_","s","u","m","m","a","r","y">>,
    extracted_text |-> <<"e","x","t","r","a","c","t","e","d","_","t","e","x","t">>
]

\* f"{k.replace('_',' ').title()}: {v}"
FieldLine(k, v) == Title(Replace(KeyChars[k], "_", " ")) \o <<":", " ">> \o v.str

\* the parts list after the loop over fields_in_order
RECURSIVE FieldParts(_, _)
FieldParts(doc, n) ==
    IF n = 0 THEN <<>>
    ELSE LET k == fields_in_order[n]
             v == Get(doc, k)
         IN  IF Truthy(v)
             THEN Append(FieldParts(doc, n - 1), FieldLine(k, v))
             ELSE FieldParts(doc, n - 1)

\* parts, with the fallback [doc.get("id", "")] when no field is populated;
\* the fallback element is a Python value and may be None.
Parts(doc) ==
    LET parts == FieldParts(doc, Len(fields_in_order))
    IN  IF parts = <<>> THEN <<GetDefault(doc, "id", Str(<<>>))>>
        ELSE [i \in 1..Len(parts) |-> Str(parts[i])]

\* "\n".join(parts) raises TypeError when an element is not a str.
BuildTextRaises(doc) == \E i \in 1..Len(Parts(doc)) : ~IsStr(Parts(doc)[i])

build_text_for_embedding(doc) ==
    LET parts == Parts(doc)
        text_blob == Strip(Join(T1(NL), [i \in 1..Len(parts) |-> parts[i].str]))
    IN  SubSeq(text_blob, 1, Min(Len(text_blob), TextCap))

\* ------------------------------------------------------------ create_embedding

\* The text create_embedding sends for `text`: " " when text is falsy.
CreateEmbeddingInput(text) == IF text = <<>> THEN Space ELSE text

\* The text get_embedding sends for `text`: newlines replaced by spaces.
GetEmbeddingInput(text) == Replace(text, NL, " ")

\* The provider rejects an empty input; any accepted call may still fail.
ProviderOutcomes(sent) == IF sent = <<>> THEN {FALSE} ELSE {TRUE, FALSE}

\* resp.data[0].embedding of a deterministic provider: the vector is a
\* function of the exact text sent, and distinct texts get distinct vectors.
Embedding(sent) == [vec |-> sent]

\* ------------------------------------------------------------- clean_metadata

clean_metadata(metadata) ==
    [k \in {x \in DOMAIN metadata :
                metadata[x] # None /\ metadata[x] # Str(<<>>)} |-> metadata[k]]

\* ------------------------------------------- store_embeddings, one record

OptionalKeys == {"product_name", "therapeutic_class", "strength", "dosage_form"}

\* uid = doc.get("id", f"vec_{i}")
Uid(doc, i) == GetDefault(doc, "id", Str(VecId(i)))
\* title = doc.get("product_name") or doc.get("brand_name") or uid
TitleOf(doc, i) == Or(Or(Get(doc, "product_name"), Get(doc, "brand_name")), Uid(doc, i))
\* source_id = doc.get("source_url") or ""
SourceId(doc) == Or(Get(doc, "source_url"), Str(<<>>))

\* the metadata dict before clean_metadata
RawMetadata(doc, i) ==
    LET keys == {"title", "chunk_index"}
                \cup (IF Truthy(SourceId(doc)) THEN {"source_id"} ELSE {})
                \cup {k \in OptionalKeys : Truthy(Get(doc, k))}
    IN  [k \in keys |->
            IF k = "title" THEN Or(TitleOf(doc, i), Uid(doc, i))
            ELSE IF k = "chunk_index" THEN Str(T1("0"))
            ELSE IF k = "source_id" THEN SourceId(doc)
            ELSE Get(doc, k)]

MetadataOf(doc, i) == clean_metadata(RawMetadata(doc, i))

\* ------------------------------------------------------------- vector store

\* A stored item is [id, embedding, metadata, document]; a collection is the
\* sequence of its items in insertion order.
Item(id, e, m, d) == [id |-> id, embedding |-> e, metadata |-> m, document |-> d]

\* collection.add(ids=..., embeddings=..., metadatas=..., documents=...):
\* an id already stored is overwritten in place and a new id is appended, the
\* items taken in order, so that the last write of an id wins.
CollectionAdd(items, b) ==
    LET n == Len(b.ids)
        given == [j \in 1..n |->
                    Item(b.ids[j], b.embeddings[j], b.metadatas[j], b.documents[j])]
        \* the last item of the batch with the id of item j of the batch
        final(j) == given[CHOOSE k \in 1..n :
                            /\ b.ids[k] = b.ids[j]
                            /\ \A m \in k + 1..n : b.ids[m] # b.ids[j]]
        InBatch(id) == \E j \in 1..n : b.ids[j] = id
        Stored(id) == \E j \in 1..Len(items) : items[j].id = id
        kept == [j \in 1..Len(items) |->
                    IF InBatch(items[j].id)
                    THEN final(CHOOSE k \in 1..n : b.ids[k] = items[j].id)
                    ELSE items[j]]
        fresh == SelectSeq([j \in 1..n |-> j],
                           LAMBDA j : /\ ~Stored(b.ids[j])
                                      /\ \A m \in 1..j - 1 : b.ids[m] # b.ids[j])
    IN  kept \o [r \in 1..Len(fresh) |-> final(fresh[r])]

\* cosine distance of two vectors, in tenths: 0 for equal vectors, and a
\* positive value of at most 2.0 otherwise.
Distance(u, v) ==
    IF u = v THEN 0
    ELSE LET a == Len(u.vec)
             b == Len(v.vec)
             d == IF a < b THEN b - a ELSE a - b
         IN  1 + Min(d, 2 * Scale - 1)

\* the indexes of the n nearest items, closest first, ties in insertion order
RECURSIVE Nearest(_, _, _)
Nearest(dist, n, taken) ==
    LET left == DOMAIN dist \ taken
    IN  IF n = 0 \/ left = {} THEN <<>>
        ELSE LET ds == {dist[j] : j \in left}
                 least == CHOOSE d \in ds : \A e \in ds : d <= e
                 ties == {j \in left : dist[j] = least}
                 best == CHOOSE j \in ties : \A k \in ties : j <= k
             IN  <<best>> \o Nearest(dist, n - 1, taken \cup {best})

\* collection.query(query_embeddings=[q], n_results=n,
\*                  include=["documents", "metadatas", "distances"]),
\* the lists of the first (only) query
CollectionQuery(items, q, n) ==
    LET dist == [j \in 1..Len(items) |-> Distance(q, items[j].embedding)]
        rank == Nearest(dist, n, {})
    IN  [documents |-> [r \in 1..Len(rank) |-> items[rank[r]].document],
         metadatas |-> [r \in 1..Len(rank) |-> items[rank[r]].metadata],
         distances |-> [r \in 1..Len(rank) |-> dist[rank[r]]]]

\* ------------------------------------------------- retrieve_similar_chunks

\* one element of chunks, for position i of the result lists
ChunkAt(results, i) ==
    LET doc == results.documents[i]
        distance == IF i <= Len(results.distances) THEN results.distances[i] ELSE Scale
        text == IF ~Truthy(doc) /\ results.metadatas # <<>> /\ i <= Len(results.metadatas)
                THEN GetDefault(results.metadatas[i], "text", Str(<<>>))
                ELSE doc
    IN  [text |-> text, similarity |-> Scale - distance]

\* FormatChunks with results of an empty document left out
FormatChunksDropEmpty(results) ==
    LET kept == SelectSeq([i \in 1..Len(results.documents) |-> i],
                          LAMBDA i : Truthy(results.documents[i]))
    IN  [r \in 1..Len(kept) |-> ChunkAt(results, kept[r])]

\* the chunks list built from a query result; results["documents"] holds one
\* list per query and is never empty for the one query made
FormatChunks(results) ==
    [i \in 1..Len(results.documents) |-> ChunkAt(results, i)]

\* -------------------------------------------------------------------- state

VARIABLES
    pathExists,     \* os.path.exists(CHROMA_DB_PATH)
    store,          \* the collections of the store: name -> items
    input,          \* INPUT_JSON: NoFile, or the list of records in the file
    ipc,            \* where store_embeddings is
    err,            \* the failure store_embeddings ended with
    docs,           \* docs = json.load(f)
    idx,            \* the index i of the record loop
    ids, embeddings, metadatas, documents,   \* the four lists being prepared
    bstart,         \* the index i of the batch loop
    calls,          \* the provider requests store_embeddings made, in order
    storeOps,       \* the store calls store_embeddings made, in order
    writes,         \* the arguments of each collection.add, in order
    final_count,    \* final_count = collection.count()
    items0,         \* the target collection's items when the run started
    last            \* the outcome of the latest retrieval or admin command

vars == <<pathExists, store, input, ipc, err, docs, idx, ids, embeddings,
          metadatas, documents, bstart, calls, storeOps, writes, final_count,
          items0, last>>

runVars == <<ipc, err, docs, idx, ids, embeddings, metadatas, documents,
             bstart, calls, storeOps, writes, final_count, items0>>

\* INPUT_JSON as a file: absent, or holding a list of records
NoFile == [exists |-> FALSE, docs |-> <<>>]
File(d) == [exists |-> TRUE, docs |-> d]
EmptyStore == [n \in {} |-> <<>>]
ItemsOf(st, name) == IF name \in DOMAIN st THEN st[name] ELSE <<>>

\* ------------------------------------------------------------------- inputs

TextA == T1("a")
TextB == T1("b")

\* The records an input file is made of.
RecFull ==
    [id |-> Str(T1("x")), product_name |-> Str(TextA), brand_name |-> Str(TextB),
     therapeutic_class |-> Str(T1("c")), strength |-> Str(T1("5")),
     source_url |-> Str(T1("u"))]
RecEmpty == [n \in {} |-> None]
RecEmptyId == [id |-> Str(<<>>), product_name |-> Str(<<>>), source_url |-> None]
RecBrand ==
    [id |-> Str(T1("y")), product_name |-> None, brand_name |-> Str(TextB),
     dosage_form |-> Str(<<>>)]
RecNullId == [id |-> None]
RecordPool == {RecFull, RecEmpty, RecEmptyId, RecBrand, RecNullId}

RECURSIVE SeqsUpTo(_, _)
SeqsUpTo(S, n) ==
    IF n = 0 THEN {<<>>}
    ELSE LET shorter == SeqsUpTo(S, n - 1)
         IN  shorter \cup {Append(q, x) : q \in {r \in shorter : Len(r) = n - 1}, x \in S}

SmallInputs == SeqsUpTo(RecordPool, MaxDocs)

\* Record j (from 1) of a batched input: every id distinct, one in four absent.
BatchRecord(j) ==
    IF j % 4 = 0 THEN [product_name |-> Str(TextA)]
    ELSE [id |-> Str(T1("r") \o DecStr(j))]
BatchCounts ==
    {1} \cup {k * BatchSize + r : k \in 0..MaxBatches, r \in {0, BatchSize \div 2}}
BatchInputs == {[j \in 1..n |-> BatchRecord(j)] : n \in BatchCounts}

\* the item store_embeddings prepares for record doc at index i
PreparedItem(doc, i) ==
    LET text == build_text_for_embedding(doc)
    IN  Item(Uid(doc, i), Embedding(CreateEmbeddingInput(text)),
             MetadataOf(doc, i), Str(text))

\* An item whose text was stored under the 'text' metadata key, with an
\* empty document.
LegacyItem ==
    Item(Str(T1("k")), Embedding(TextA), [text |-> Str(TextA)], Str(<<>>))

\* The store before the first command: no directory, an empty directory, or
\* collections filled by earlier runs.
InitialStores ==
    { [path |-> FALSE, store |-> EmptyStore],
      [path |-> TRUE, store |-> EmptyStore],
      [path |-> TRUE,
       store |-> (CHROMA_COLLECTION_NAME :> <<>>) @@ (OtherCollection :> <<LegacyItem>>)],
      [path |-> TRUE,
       store |-> (CHROMA_COLLECTION_NAME :>
                    <<PreparedItem(RecBrand, 0), LegacyItem, PreparedItem(RecEmpty, 2)>>)] }

Queries ==
    {build_text_for_embedding(RecFull), build_text_for_embedding(RecBrand),
     build_text_for_embedding(RecEmpty), TextA, T1(NL)}

NoResults == [documents |-> <<>>, metadatas |-> <<>>, distances |-> <<>>]
NoLast ==
    [op |-> "none", name |-> "", confirm |-> FALSE, query |-> <<>>, top_k |-> 0,
     status |-> "", names |-> "", sent |-> <<>>, called |-> FALSE,
     results |-> NoResults, chunks |-> <<>>, count |-> 0, keys |-> {}]

InitRun ==
    /\ ipc = "idle" /\ err = "" /\ docs = <<>> /\ idx = 0
    /\ ids = <<>> /\ embeddings = <<>> /\ metadatas = <<>> /\ documents = <<>>
    /\ bstart = 0 /\ calls = <<>> /\ storeOps = <<>> /\ writes = <<>>
    /\ final_count = 0 /\ items0 = <<>>
    /\ last = NoLast

InitStore ==
    \E s \in InitialStores : pathExists = s.path /\ store = s.store

Init ==
    /\ InitStore
    /\ input \in {NoFile} \cup {File(d) : d \in SmallInputs}
    /\ InitRun

\* the batched runs start without a store directory or on a filled collection
InitBatch ==
    /\ \E s \in InitialStores :
          /\ ~s.path \/ ItemsOf(s.store, CHROMA_COLLECTION_NAME) # <<>>
          /\ pathExists = s.path
          /\ store = s.store
    /\ input \in {File(d) : d \in BatchInputs}
    /\ InitRun

\* --------------------------------------------------------- store_embeddings

\* one request to the provider: the text the caller had, the text sent, and
\* whether the provider answered
Call(given, sent, ok) == [given |-> given, sent |-> sent, ok |-> ok]

\* where the run goes once the record loop has handled i of n records, and
\* once the batch loop has written up to index i of n
AfterRecords(i, n) == IF i < n THEN "loop" ELSE IF n > 0 THEN "batch" ELSE "count"
AfterBatches(i, n) == IF i < n THEN "batch" ELSE "count"

\* Slice with the end of the slice one short: ids[i:i + batch_size - 1]
SliceShort(l, i) == SubSeq(l, i + 1, Min(i + BatchSize - 1, Len(l)))

\* ids[i:i + batch_size]
Slice(l, i) == SubSeq(l, i + 1, Min(i + BatchSize, Len(l)))

\* lines 56-60: sample_embedding = create_embedding("sample")
IngestSample ==
    /\ ipc = "idle"
    /\ LET given == <<"s","a","m","p","l","e">>
           sent == CreateEmbeddingInput(given)
       IN  \E ok \in ProviderOutcomes(sent) :
              /\ calls' = <<Call(given, sent, ok)>>
              /\ ipc' = IF ok THEN "open" ELSE "failed"
              /\ err' = IF ok THEN "" ELSE "provider"
    /\ items0' = ItemsOf(store, CHROMA_COLLECTION_NAME)
    /\ last' = NoLast
    /\ UNCHANGED <<pathExists, store, input, docs, idx, ids, embeddings, metadatas,
                   documents, bstart, storeOps, writes, final_count>>

\* lines 62-92: os.makedirs, PersistentClient, get_collection or
\* create_collection
IngestOpenStore ==
    /\ ipc = "open"
    /\ pathExists' = TRUE
    /\ IF CHROMA_COLLECTION_NAME \in DOMAIN store
       THEN /\ store' = store
            /\ storeOps' = storeOps \o <<"makedirs", "get_collection", "count">>
       ELSE /\ store' = store @@ (CHROMA_COLLECTION_NAME :> <<>>)
            /\ storeOps' = storeOps \o <<"makedirs", "get_collection", "create_collection">>
    /\ ipc' = "load"
    /\ UNCHANGED <<input, err, docs, idx, ids, embeddings, metadatas, documents,
                   bstart, calls, writes, final_count, items0, last>>

\* lines 94-107: the input file is checked and read
IngestLoad ==
    /\ ipc = "load"
    /\ IF ~input.exists
       THEN /\ ipc' = "failed"
            /\ err' = "missing_input"
            /\ docs' = docs
       ELSE /\ docs' = input.docs
            /\ ipc' = AfterRecords(0, Len(input.docs))
            /\ err' = err
    /\ UNCHANGED <<pathExists, store, input, idx, ids, embeddings, metadatas,
                   documents, bstart, calls, storeOps, writes, final_count,
                   items0, last>>

\* IngestRecord with a failed provider request logged and the record skipped
IngestRecordSkipFailed ==
    /\ ipc = "loop"
    /\ idx < Len(docs)
    /\ LET doc == docs[idx + 1]
           text == IF BuildTextRaises(doc) THEN <<>> ELSE build_text_for_embedding(doc)
           sent == CreateEmbeddingInput(text)
       IN  \E ok \in ProviderOutcomes(sent) :
              /\ calls' = Append(calls, Call(text, sent, ok))
              /\ ids' = IF ok THEN Append(ids, Uid(doc, idx)) ELSE ids
              /\ embeddings' = IF ok THEN Append(embeddings, Embedding(sent)) ELSE embeddings
              /\ metadatas' = IF ok THEN Append(metadatas, MetadataOf(doc, idx)) ELSE metadatas
              /\ documents' = IF ok THEN Append(documents, Str(text)) ELSE documents
    /\ idx' = idx + 1
    /\ ipc' = IF idx + 1 < Len(docs) THEN "loop" ELSE "batch"
    /\ UNCHANGED <<pathExists, store, input, err, docs, bstart, storeOps, writes,
                   final_count, items0, last>>

\* lines 109-146: one pass of the record loop
IngestRecord ==
    /\ ipc = "loop"
    /\ idx < Len(docs)
    /\ LET doc == docs[idx + 1]
       IN  IF BuildTextRaises(doc)
           THEN /\ ipc' = "failed"
                /\ err' = "type_error"
                /\ UNCHANGED <<idx, ids, embeddings, metadatas, documents, calls>>
           ELSE LET text == build_text_for_embedding(doc)
                    sent == CreateEmbeddingInput(text)
                IN  \E ok \in ProviderOutcomes(sent) :
                       /\ calls' = Append(calls, Call(text, sent, ok))
                       /\ IF ok
                          THEN /\ ids' = Append(ids, Uid(doc, idx))
                               /\ embeddings' = Append(embeddings, Embedding(sent))
                               /\ metadatas' = Append(metadatas, MetadataOf(doc, idx))
                               /\ documents' = Append(documents, Str(text))
                               /\ idx' = idx + 1
                               /\ ipc' = AfterRecords(idx + 1, Len(docs))
                               /\ err' = err
                          ELSE /\ ipc' = "failed"
                               /\ err' = "provider"
                               /\ UNCHANGED <<idx, ids, embeddings, metadatas, documents>>
    /\ UNCHANGED <<pathExists, store, input, docs, bstart, storeOps, writes,
                   final_count, items0, last>>

\* lines 154-168: one pass of the batch loop
IngestBatch ==
    /\ ipc = "batch"
    /\ bstart < Len(ids)
    /\ LET batch == [ids |-> Slice(ids, bstart),
                     embeddings |-> Slice(embeddings, bstart),
                     metadatas |-> Slice(metadatas, bstart),
                     documents |-> Slice(documents, bstart)]
       IN  /\ store' = [store EXCEPT ![CHROMA_COLLECTION_NAME] = CollectionAdd(@, batch)]
           /\ writes' = Append(writes, batch)
           /\ storeOps' = Append(storeOps, "add")
    /\ bstart' = bstart + BatchSize
    /\ ipc' = AfterBatches(bstart + BatchSize, Len(ids))
    /\ UNCHANGED <<pathExists, input, err, docs, idx, ids, embeddings, metadatas,
                   documents, calls, final_count, items0, last>>

\* lines 170-174: final_count = collection.count()
IngestCount ==
    /\ ipc = "count"
    /\ final_count' = Len(store[CHROMA_COLLECTION_NAME])
    /\ storeOps' = Append(storeOps, "count")
    /\ ipc' = "done"
    /\ UNCHANGED <<pathExists, store, input, err, docs, idx, ids, embeddings,
                   metadatas, documents, bstart, calls, writes, items0, last>>

\* A retrieval or an admin command runs before the ingestion run or after it.
BetweenRuns == ipc \in {"idle", "done"}

\* -------------------------------------------------- retrieve_similar_chunks

Retrieved(query, top_k, status, names, sent, called, results, chunks) ==
    [NoLast EXCEPT !.op = "retrieve", !.query = query, !.top_k = top_k,
                   !.status = status, !.names = names, !.sent = sent,
                   !.called = called, !.results = results, !.chunks = chunks]

\* RetrieveOutcome with the collection looked up by get_or_create_collection:
\* an absent collection answers as an empty one
RetrieveOutcomeGetOrCreate(query, top_k, ok) ==
    LET sent == GetEmbeddingInput(query)
    IN  IF ~pathExists
        THEN Retrieved(query, top_k, "ValueError", "path", <<>>, FALSE, NoResults, <<>>)
        ELSE IF ~ok
        THEN Retrieved(query, top_k, "ProviderError", "", sent, TRUE, NoResults, <<>>)
        ELSE LET results == CollectionQuery(ItemsOf(store, CHROMA_COLLECTION_NAME),
                                            Embedding(sent), top_k)
                 chunks == FormatChunks(results)
             IN  Retrieved(query, top_k, "ok", "", sent, TRUE, results, chunks)

\* the outcome of retrieve_similar_chunks(query, top_k) when the provider
\* answers the embedding request (ok) or fails it
RetrieveOutcome(query, top_k, ok) ==
    LET sent == GetEmbeddingInput(query)
    IN  IF ~pathExists
        THEN Retrieved(query, top_k, "ValueError", "path", <<>>, FALSE, NoResults, <<>>)
        ELSE IF ~ok
        THEN Retrieved(query, top_k, "ProviderError", "", sent, TRUE, NoResults, <<>>)
        ELSE IF CHROMA_COLLECTION_NAME \notin DOMAIN store
        THEN Retrieved(query, top_k, "ValueError", "collection", sent, TRUE, NoResults, <<>>)
        ELSE LET results == CollectionQuery(store[CHROMA_COLLECTION_NAME],
                                            Embedding(sent), top_k)
                 chunks == FormatChunks(results)
             IN  Retrieved(query, top_k, "ok", "", sent, TRUE, results, chunks)

retrieve_similar_chunks(query, top_k) ==
    /\ BetweenRuns
    /\ \E ok \in ProviderOutcomes(GetEmbeddingInput(query)) :
          last' = RetrieveOutcome(query, top_k, ok)
    /\ UNCHANGED <<pathExists, store, input>>
    /\ UNCHANGED runVars

\* ----------------------------------------------------------- manage_indexes

\* lines 48-69: describe_collection; the module exits on import without the
\* store directory
describe_collection(name) ==
    /\ BetweenRuns
    /\ last' =
         IF ~pathExists
         THEN [NoLast EXCEPT !.op = "describe", !.name = name, !.status = "exit"]
         ELSE IF name \notin DOMAIN store
         THEN [NoLast EXCEPT !.op = "describe", !.name = name, !.status = "error"]
         ELSE [NoLast EXCEPT !.op = "describe", !.name = name, !.status = "ok",
                             !.count = Len(store[name]),
                             !.keys = IF store[name] = <<>> THEN {}
                                      ELSE DOMAIN store[name][1].metadata]
    /\ UNCHANGED <<pathExists, store, input>>
    /\ UNCHANGED runVars

\* delete_collection without the confirm gate
delete_collection_unguarded(name, confirm) ==
    /\ BetweenRuns
    /\ IF ~pathExists
       THEN /\ last' = [NoLast EXCEPT !.op = "delete", !.name = name,
                                      !.confirm = confirm, !.status = "exit"]
            /\ store' = store
       ELSE IF name \in DOMAIN store
       THEN /\ last' = [NoLast EXCEPT !.op = "delete", !.name = name,
                                      !.confirm = confirm, !.status = "deleted"]
            /\ store' = [n \in DOMAIN store \ {name} |-> store[n]]
       ELSE /\ last' = [NoLast EXCEPT !.op = "delete", !.name = name,
                                      !.confirm = confirm, !.status = "error"]
            /\ store' = store
    /\ UNCHANGED <<pathExists, input>>
    /\ UNCHANGED runVars

\* lines 71-82: delete_collection
delete_collection(name, confirm) ==
    /\ BetweenRuns
    /\ IF ~pathExists
       THEN /\ last' = [NoLast EXCEPT !.op = "delete", !.name = name,
                                      !.confirm = confirm, !.status = "exit"]
            /\ store' = store
       ELSE IF ~confirm
       THEN /\ last' = [NoLast EXCEPT !.op = "delete", !.name = name,
                                      !.confirm = confirm, !.status = "unconfirmed"]
            /\ store' = store
       ELSE IF name \in DOMAIN store
       THEN /\ last' = [NoLast EXCEPT !.op = "delete", !.name = name,
                                      !.confirm = confirm, !.status = "deleted"]
            /\ store' = [n \in DOMAIN store \ {name} |-> store[n]]
       ELSE /\ last' = [NoLast EXCEPT !.op = "delete", !.name = name,
                                      !.confirm = confirm, !.status = "error"]
            /\ store' = store
    /\ UNCHANGED <<pathExists, input>>
    /\ UNCHANGED runVars

\* ------------------------------------------------------------ specification

Next ==
    \/ IngestSample
    \/ IngestOpenStore
    \/ IngestLoad
    \/ IngestRecord
    \/ IngestBatch
    \/ IngestCount
    \/ \E q \in Queries, k \in 1..MaxTopK : retrieve_similar_chunks(q, k)
    \/ \E n \in CollectionNames : describe_collection(n)
    \/ \E n \in CollectionNames, c \in BOOLEAN : delete_collection(n, c)

Spec == Init /\ [][Next]_vars

\* the same program on inputs of up to MaxBatches full batches and a remainder
SpecBatch == InitBatch /\ [][Next]_vars

\* ------------------------------------------------------------------- claims

Blank(t) == \A i \in 1..Len(t) : t[i] \in Whitespace
NoFieldPopulated(doc) ==
    \A n \in 1..Len(fields_in_order) : ~Truthy(Get(doc, fields_in_order[n]))
Ceil(n, d) == IF n % d = 0 THEN n \div d ELSE n \div d + 1
RECURSIVE Concat(_)
Concat(ss) == IF ss = <<>> THEN <<>> ELSE Head(ss) \o Concat(Tail(ss))
DistinctIds(l) == \A i, j \in 1..Len(l) : l[i] = l[j] => i = j
Absent(st) == CHROMA_COLLECTION_NAME \notin DOMAIN st

\* C1: a step of delete_collection(name, confirm) with confirm false leaves the
\* store as it was, and with confirm true on an existing collection removes
\* that collection and nothing else, so that a lookup of the name finds none.
C1_DeleteOnlyWhenConfirmed ==
    [][last'.op = "delete" =>
          /\ ~last'.confirm => (store' = store /\ pathExists' = pathExists)
          /\ (last'.confirm /\ last'.name \in DOMAIN store) =>
                /\ last'.name \notin DOMAIN store'
                /\ DOMAIN store' = DOMAIN store \ {last'.name}
                /\ \A n \in DOMAIN store' : store'[n] = store[n]]_vars

\* a confirmed delete removed the ingested target collection
C1_Witness ==
    /\ last.op = "delete" /\ last.confirm /\ last.status = "deleted"
    /\ last.name = CHROMA_COLLECTION_NAME
    /\ ipc = "done" /\ writes # <<>>
    /\ Absent(store)

\* C2: when store_embeddings fails on the missing input file, no provider
\* request has been made and no store call has been issued.
C2_MissingInputBeforeAnyWork ==
    (ipc = "failed" /\ err = "missing_input") => (calls = <<>> /\ storeOps = <<>>)

\* C3: after an ingestion, a retrieval whose query is the (non-empty) text
\* blob of an ingested record sends the provider the text ingestion sent for
\* that record and, when it succeeds, returns that record first at distance 0.
\* The empty blob is left to C7.
C3_RoundTrip ==
    \A i \in 1..Len(documents) :
        ( /\ ipc = "done"
          /\ last.op = "retrieve" /\ last.status = "ok"
          /\ last.query # <<>>
          /\ documents[i] = Str(last.query) )
        => /\ last.sent = calls[i + 1].sent
           /\ last.results.distances[1] = 0
           /\ last.results.documents[1] = documents[i]

\* C4: an ingestion of N records with distinct ids into an empty collection
\* issues ceil(N / 100) writes, each of 100 items but a shorter last one of
\* N mod 100, whose concatenation is the records' items in input order, and
\* counts N items after the last write.
C4_Batches ==
    (ipc = "done" /\ items0 = <<>> /\ DistinctIds(ids)) =>
        LET N == Len(docs)
            W == Len(writes)
        IN  /\ W = Ceil(N, 100)
            /\ \A b \in 1..W :
                  /\ Len(writes[b].ids) =
                        IF b < W \/ N % 100 = 0 THEN 100 ELSE N % 100
                  /\ Len(writes[b].embeddings) = Len(writes[b].ids)
                  /\ Len(writes[b].metadatas) = Len(writes[b].ids)
                  /\ Len(writes[b].documents) = Len(writes[b].ids)
            /\ Concat([b \in 1..W |-> writes[b].ids]) =
                  [i \in 1..N |-> PreparedItem(docs[i], i - 1).id]
            /\ Concat([b \in 1..W |-> writes[b].embeddings]) =
                  [i \in 1..N |-> PreparedItem(docs[i], i - 1).embedding]
            /\ Concat([b \in 1..W |-> writes[b].metadatas]) =
                  [i \in 1..N |-> PreparedItem(docs[i], i - 1).metadata]
            /\ Concat([b \in 1..W |-> writes[b].documents]) =
                  [i \in 1..N |-> PreparedItem(docs[i], i - 1).document]
            /\ final_count = N

\* 250 records went into an empty collection as batches of 100, 100 and 50
C4_Witness ==
    /\ ipc = "done" /\ items0 = <<>> /\ Len(docs) = 250
    /\ [b \in 1..Len(writes) |-> Len(writes[b].ids)] = <<100, 100, 50>>
    /\ final_count = 250

\* C5 as stated: a retrieval with the target collection absent ends in the
\* not-found failure that names the collection, in every state.
C5_AlwaysCollectionNotFound ==
    (last.op = "retrieve" /\ Absent(store)) =>
        (last.status = "ValueError" /\ last.names = "collection")

\* C5 amended: a retrieval with the target collection absent returns no chunk
\* list and leaves the collection absent; it ends in the failure naming the
\* store path, before any provider request, when the store path is absent;
\* in the provider's failure when the path exists and the embedding request
\* fails; and in the not-found failure naming the collection otherwise.
C5_FailsWhenCollectionAbsent ==
    [][(last'.op = "retrieve" /\ Absent(store)) =>
          /\ Absent(store') /\ pathExists' = pathExists
          /\ last'.status # "ok" /\ last'.chunks = <<>>
          /\ ~pathExists =>
                (last'.status = "ValueError" /\ last'.names = "path" /\ ~last'.called)
          /\ pathExists =>
                /\ last'.called
                /\ \/ last'.status = "ProviderError"
                   \/ last'.status = "ValueError" /\ last'.names = "collection"]_vars

\* the not-found failure that names the collection was reported
C5_Witness ==
    /\ last.op = "retrieve" /\ Absent(store) /\ pathExists
    /\ last.status = "ValueError" /\ last.names = "collection"

\* C6: a failed provider request of store_embeddings is its last request and
\* ends the run in that failure with no write issued, and the collection then
\* holds the items it held before the run.
C6_ProviderFailureAborts ==
    /\ \A j \in 1..Len(calls) :
          ~calls[j].ok =>
              /\ j = Len(calls)
              /\ ipc = "failed" /\ err = "provider"
              /\ writes = <<>>
              /\ \A k \in 1..Len(storeOps) : storeOps[k] # "add"
    /\ (ipc = "failed" /\ err = "provider") =>
          /\ ~calls[Len(calls)].ok
          /\ ItemsOf(store, CHROMA_COLLECTION_NAME) = items0

\* the request for the second record failed on a collection that held items
C6_Witness ==
    /\ ipc = "failed" /\ err = "provider"
    /\ idx = 1 /\ Len(calls) = 3 /\ Len(docs) = 2
    /\ items0 # <<>>

\* C7: every provider request carries a non-empty text, and a single space
\* when the caller's text is empty or only whitespace.
C7_RequestsNeverEmpty ==
    /\ \A j \in 1..Len(calls) :
          /\ calls[j].sent # <<>>
          /\ Blank(calls[j].given) => calls[j].sent = Space
    /\ (last.op = "retrieve" /\ last.called) =>
          /\ last.sent # <<>>
          /\ Blank(last.query) => last.sent = Space

\* C8: a successful retrieval returns one chunk per item of the store's
\* answer, min(top_k, count) of them, in the answer's order, each with
\* similarity 1 - distance and with the document as text or, for an empty
\* document, the 'text' metadata value or the empty string.
C8_ChunksFollowStoreAnswer ==
    (last.op = "retrieve" /\ last.status = "ok") =>
        LET r == last.results
            c == last.chunks
            n == Len(r.documents)
        IN  /\ Len(c) = n
            /\ n = Min(last.top_k, Len(store[CHROMA_COLLECTION_NAME]))
            /\ \A i \in 1..n :
                  /\ c[i].similarity + r.distances[i] = Scale
                  /\ c[i].text =
                        IF r.documents[i] \notin {None, Str(<<>>)} THEN r.documents[i]
                        ELSE IF "text" \in DOMAIN r.metadatas[i]
                             THEN r.metadatas[i]["text"]
                             ELSE Str(<<>>)
            /\ \A i \in 1..n - 1 :
                  r.distances[i] <= r.distances[i + 1] =>
                      c[i].similarity >= c[i + 1].similarity

\* two chunks came back, one of them for an item with an empty document and a
\* 'text' metadata value
C8_Witness ==
    /\ last.op = "retrieve" /\ last.status = "ok"
    /\ Len(last.chunks) = 2
    /\ last.chunks[1].similarity > last.chunks[2].similarity
    /\ \E i \in 1..2 :
          /\ last.results.documents[i] = Str(<<>>)
          /\ "text" \in DOMAIN last.results.metadatas[i]
          /\ last.chunks[i].text = Str(TextA)

\* C9: for a record with none of the nine fields populated, the document
\* stored by ingestion equals the id stored for the item.
C9_FallbackDocumentIsId ==
    ipc = "done" =>
        \A i \in 1..Len(ids) :
            NoFieldPopulated(docs[i]) => documents[i] = ids[i]

\* C10: every metadata map written has a non-null, non-empty title and no
\* null or empty value.
C10_TitleAlwaysWritten ==
    \A b \in 1..Len(writes) :
        \A j \in 1..Len(writes[b].metadatas) :
            LET m == writes[b].metadatas[j]
            IN  /\ "title" \in DOMAIN m
                /\ \A k \in DOMAIN m : m[k] # None /\ m[k] # Str(<<>>)

====
